---------------------------- MODULE Spec2Model ----------------------------
(***************************************************************************)
(* Model of the gloo worker bridge layer: Spawner::spawn and its inbound   *)
(* message handler (crates/worker/src/spawner.rs), and the reactor         *)
(* connection built on top of it (crates/worker/src/reactor/bridge.rs).    *)
(*                                                                         *)
(* One logical thread owns all the state, so every operation (spawn, send, *)
(* fork, drop, the inbound handler, a poll) is one atomic action.          *)
(*                                                                         *)
(* Rc/Weak: a callback is an object identified by a number; it is alive    *)
(* while some owner (the Spawner value, a Bridge) still holds a strong     *)
(* reference to it.  The registry holds weak references: a number that     *)
(* resolves only while the callback is alive.                              *)
(***************************************************************************)
EXTENDS Integers, Sequences, FiniteSets, TLC

\* ------------------------------------------------------------------ bounds
MaxHandlers == 2     \* HandlerIds issued (each spawn and each fork takes one)
MaxCallbacks == 2    \* callback closures created (Spawner::callback + fork)
MaxSends == 2        \* send calls
MaxInvocations == 3  \* output handler invocations

\* The items callers send and workers emit
Inputs == {1, 2}
Items == {1, 2}

VARIABLES
    spawner,        \* the Spawner value: [alive, callback]; callback 0 is None
    nextId,         \* HandlerId allocator (process-wide counter)
    nCallbacks,     \* callback closures created so far (Rc identities 1..nCallbacks)
    bridges,        \* Seq of Bridge handles: [id, w, cb, rx, alive]
    pending_queue,  \* per worker: Option<Vec<ToWorker>> as [some, q]
    callbacks,      \* per worker: CallbackMap, HandlerId -> weak callback
    posted,         \* per worker: messages transmitted to the physical worker
    running,        \* per worker: the physical worker has not been stopped
    chan,           \* per callback: its delivery channel [items, closed]
    stream,         \* per callback: what its receiver has yielded [yielded, done]
    calls,          \* per callback: the payloads it was called with, in order
    submitted,      \* per worker: log of send calls [msg, loaded]
    nLoaded,        \* per worker: WorkerLoaded signals handled (0, 1, 2 or more)
    result          \* what the last Sink call returned, or the failure of a dispatch

vars == <<spawner, nextId, nCallbacks, bridges, pending_queue, callbacks,
          posted, running, chan, stream, calls, submitted, nLoaded, result>>

\* ------------------------------------------------------------- data values
Finish == [tag |-> "Finish", m |-> 0]
Output(m) == [tag |-> "Output", m |-> m]
Input(m) == [tag |-> "Input", m |-> m]
ReactorOutput == {Output(m) : m \in Items} \cup {Finish}

Workers == 1..Len(pending_queue)
Bridges == 1..Len(bridges)
HandlerIds == 1..MaxHandlers

\* Rc strong count > 0: the Spawner value or a live Bridge owns the closure.
Alive(c) ==
    \/ spawner.alive /\ spawner.callback = c
    \/ \E b \in Bridges : bridges[b].alive /\ bridges[b].cb = c

\* Weak::upgrade of a registry entry
Upgrade(c) == c # 0 /\ Alive(c)

TotalSends == LET RECURSIVE Sum(_)
                  Sum(w) == IF w = 0 THEN 0 ELSE Len(submitted[w]) + Sum(w - 1)
              IN Sum(Len(submitted))

TotalCalls == LET RECURSIVE Sum(_)
                  Sum(c) == IF c = 0 THEN 0 ELSE Len(calls[c]) + Sum(c - 1)
              IN Sum(Len(calls))

\* CallbackMap: HashMap<HandlerId, Weak<dyn Fn(Output)>>; 0 is "no entry"
EmptyMap == [h \in HandlerIds |-> 0]
Insert(map, id, c) == [map EXCEPT ![id] = c]
Remove(map, id) == [map EXCEPT ![id] = 0]
Get(map, id) == IF id \in DOMAIN map THEN map[id] ELSE 0

\* ---------------------------------------------------------------- Spawner
Init ==
    /\ spawner = [alive |-> TRUE, callback |-> 0]
    /\ nextId = 1
    /\ nCallbacks = 0
    /\ bridges = <<>>
    /\ pending_queue = <<>>
    /\ callbacks = <<>>
    /\ posted = <<>>
    /\ running = <<>>
    /\ chan = <<>>
    /\ stream = <<>>
    /\ calls = <<>>
    /\ submitted = <<>>
    /\ nLoaded = <<>>
    /\ result = "None"

\* mpsc::unbounded(): a fresh open, empty channel and its receiver
NewChan == [items |-> <<>>, closed |-> FALSE]
NewStream == [yielded |-> <<>>, done |-> FALSE]

\* Spawner::new, once the previous Spawner value is gone
new ==
    /\ ~spawner.alive
    /\ spawner' = [alive |-> TRUE, callback |-> 0]
    /\ UNCHANGED <<nextId, nCallbacks, bridges, pending_queue, callbacks, posted,
                   running, chan, stream, calls, submitted, nLoaded, result>>

\* Spawner::callback(cb): the Spawner owns the new closure
SetCallback ==
    /\ nCallbacks' = nCallbacks + 1
    /\ spawner' = [spawner EXCEPT !.callback = nCallbacks + 1]
    /\ chan' = Append(chan, NewChan)
    /\ stream' = Append(stream, NewStream)
    /\ calls' = Append(calls, <<>>)

callback ==
    /\ spawner.alive
    /\ nCallbacks < MaxCallbacks
    /\ SetCallback
    /\ UNCHANGED <<nextId, bridges, pending_queue, callbacks, posted, running,
                   submitted, nLoaded, result>>

\* HandlerId::new(): the next value of the process-wide counter
HandlerIdNew == nextId

\* Mutant: every spawn starts its worker's connections at the first id.
SpawnWorker_FirstId(cb, rx) ==
    LET handler_id == 1
        w == Len(pending_queue) + 1
    IN /\ nextId' = nextId + 1
       /\ pending_queue' = Append(pending_queue, [some |-> TRUE, q |-> <<>>])
       /\ callbacks' = Append(callbacks,
                              IF cb # 0 THEN Insert(EmptyMap, handler_id, cb)
                                        ELSE EmptyMap)
       /\ bridges' = Append(bridges, [id |-> handler_id, w |-> w, cb |-> cb,
                                      rx |-> rx, alive |-> TRUE])
       /\ posted' = Append(posted, <<>>)
       /\ running' = Append(running, TRUE)
       /\ submitted' = Append(submitted, <<>>)
       /\ nLoaded' = Append(nLoaded, 0)

\* Spawner::spawn with the configured callback cb (0: none).  rx is the
\* receiver the caller pairs with the returned Bridge (0: a plain Bridge).
SpawnWorker(cb, rx) ==
    LET handler_id == HandlerIdNew
        w == Len(pending_queue) + 1
    IN /\ nextId' = nextId + 1
       /\ pending_queue' = Append(pending_queue, [some |-> TRUE, q |-> <<>>])
       /\ callbacks' = Append(callbacks,
                              IF cb # 0 THEN Insert(EmptyMap, handler_id, cb)
                                        ELSE EmptyMap)
       /\ bridges' = Append(bridges, [id |-> handler_id, w |-> w, cb |-> cb,
                                      rx |-> rx, alive |-> TRUE])
       /\ posted' = Append(posted, <<>>)
       /\ running' = Append(running, TRUE)
       /\ submitted' = Append(submitted, <<>>)
       /\ nLoaded' = Append(nLoaded, 0)

\* Spawner::spawn(&self, path): the Spawner value stays and keeps its callback
spawn ==
    /\ spawner.alive
    /\ nextId <= MaxHandlers
    /\ SpawnWorker(spawner.callback, 0)
    /\ UNCHANGED <<spawner, nCallbacks, chan, stream, calls, result>>

\* A reactor connection is spawned: register_callback puts a closure that
\* owns the sender of a fresh channel on the Spawner, the worker is spawned,
\* ReactorBridge::new pairs the Bridge with the receiver; the Spawner value
\* is consumed.
reactor_spawn ==
    /\ spawner.alive
    /\ nextId <= MaxHandlers
    /\ nCallbacks < MaxCallbacks
    /\ nCallbacks' = nCallbacks + 1
    /\ chan' = Append(chan, NewChan)
    /\ stream' = Append(stream, NewStream)
    /\ calls' = Append(calls, <<>>)
    /\ SpawnWorker(nCallbacks + 1, nCallbacks + 1)
    /\ spawner' = [alive |-> FALSE, callback |-> 0]
    /\ UNCHANGED result

\* The Spawner value goes out of scope: its strong reference is released.
DropSpawner ==
    /\ spawner.alive
    /\ spawner' = [alive |-> FALSE, callback |-> 0]
    /\ UNCHANGED <<nextId, nCallbacks, bridges, pending_queue, callbacks, posted,
                   running, chan, stream, calls, submitted, nLoaded, result>>

\* ----------------------------------------------------- the inbound handler
\* Mutant: an item is pushed without looking at the closed flag.
output_callback_IgnoreClosed(ch, output) ==
    IF output.tag = "Output"
    THEN [ch EXCEPT !.items = Append(@, output.m)]
    ELSE [ch EXCEPT !.closed = TRUE]

\* Mutant: Finish drops what is still queued.
output_callback_DropOnFinish(ch, output) ==
    IF output.tag = "Output"
    THEN IF ch.closed THEN ch
         ELSE [ch EXCEPT !.items = Append(@, output.m)]
    ELSE [items |-> <<>>, closed |-> TRUE]

\* ReactorBridge::output_callback on the channel whose sender the closure owns
output_callback(ch, output) ==
    IF output.tag = "Output"
    THEN IF ch.closed THEN ch                       \* send_now fails, ignored
         ELSE [ch EXCEPT !.items = Append(@, output.m)]
    ELSE [ch EXCEPT !.closed = TRUE]                \* close_now

Reverse(q) == [i \in 1..Len(q) |-> q[Len(q) + 1 - i]]

\* Mutant: the buffer is drained from its back (pop) instead of into_iter.
WorkerLoaded_Reversed(w) ==
    /\ nLoaded' = [nLoaded EXCEPT ![w] = IF @ < 2 THEN @ + 1 ELSE 2]
    /\ IF pending_queue[w].some
       THEN /\ pending_queue' = [pending_queue EXCEPT ![w] = [some |-> FALSE, q |-> <<>>]]
            /\ posted' = [posted EXCEPT ![w] = @ \o Reverse(pending_queue[w].q)]
       ELSE UNCHANGED <<pending_queue, posted>>
    /\ UNCHANGED <<spawner, nextId, nCallbacks, bridges, callbacks, running,
                   chan, stream, calls, submitted, result>>

\* Mutant: the buffer is iterated by reference and the Option is not taken.
WorkerLoaded_NoTake(w) ==
    /\ nLoaded' = [nLoaded EXCEPT ![w] = IF @ < 2 THEN @ + 1 ELSE 2]
    /\ posted' = [posted EXCEPT ![w] = @ \o pending_queue[w].q]
    /\ UNCHANGED <<spawner, nextId, nCallbacks, bridges, pending_queue, callbacks,
                   running, chan, stream, calls, submitted, result>>

\* Mutant: the Vec is taken out of the Option, which stays Some(empty).
WorkerLoaded_Reopen(w) ==
    /\ nLoaded' = [nLoaded EXCEPT ![w] = IF @ < 2 THEN @ + 1 ELSE 2]
    /\ pending_queue' = [pending_queue EXCEPT ![w] = [some |-> TRUE, q |-> <<>>]]
    /\ posted' = [posted EXCEPT ![w] = @ \o pending_queue[w].q]
    /\ UNCHANGED <<spawner, nextId, nCallbacks, bridges, callbacks, running,
                   chan, stream, calls, submitted, result>>

\* Mutant: a WorkerLoaded that finds the queue closed opens a new one.
WorkerLoaded_Toggle(w) ==
    /\ nLoaded' = [nLoaded EXCEPT ![w] = IF @ < 2 THEN @ + 1 ELSE 2]
    /\ IF pending_queue[w].some
       THEN /\ pending_queue' = [pending_queue EXCEPT ![w] = [some |-> FALSE, q |-> <<>>]]
            /\ posted' = [posted EXCEPT ![w] = @ \o pending_queue[w].q]
       ELSE /\ pending_queue' = [pending_queue EXCEPT ![w] = [some |-> TRUE, q |-> <<>>]]
            /\ UNCHANGED posted
    /\ UNCHANGED <<spawner, nextId, nCallbacks, bridges, callbacks, running,
                   chan, stream, calls, submitted, result>>

\* Mutant: one Pending Queue is shared by all workers; WorkerLoaded from any
\* of them flushes and closes every queue.
WorkerLoaded_FlushAll(w) ==
    /\ nLoaded' = [nLoaded EXCEPT ![w] = IF @ < 2 THEN @ + 1 ELSE 2]
    /\ pending_queue' = [v \in Workers |-> [some |-> FALSE, q |-> <<>>]]
    /\ posted' = [v \in Workers |-> posted[v] \o pending_queue[v].q]
    /\ UNCHANGED <<spawner, nextId, nCallbacks, bridges, callbacks, running,
                   chan, stream, calls, submitted, result>>

\* Mutant: the flush skips the messages of Bridges that are gone.
WorkerLoaded_SkipDropped(w) ==
    /\ nLoaded' = [nLoaded EXCEPT ![w] = IF @ < 2 THEN @ + 1 ELSE 2]
    /\ IF pending_queue[w].some
       THEN /\ pending_queue' = [pending_queue EXCEPT ![w] = [some |-> FALSE, q |-> <<>>]]
            /\ posted' = [posted EXCEPT ![w] =
                            @ \o SelectSeq(pending_queue[w].q,
                                           LAMBDA e : \E b \in Bridges :
                                              bridges[b].id = e.id /\ bridges[b].alive)]
       ELSE UNCHANGED <<pending_queue, posted>>
    /\ UNCHANGED <<spawner, nextId, nCallbacks, bridges, callbacks, running,
                   chan, stream, calls, submitted, result>>

\* FromWorker::WorkerLoaded
WorkerLoaded(w) ==
    /\ nLoaded' = [nLoaded EXCEPT ![w] = IF @ < 2 THEN @ + 1 ELSE 2]
    /\ IF pending_queue[w].some
       THEN /\ pending_queue' = [pending_queue EXCEPT ![w] = [some |-> FALSE, q |-> <<>>]]
            /\ posted' = [posted EXCEPT ![w] = @ \o pending_queue[w].q]
       ELSE UNCHANGED <<pending_queue, posted>>
    /\ UNCHANGED <<spawner, nextId, nCallbacks, bridges, callbacks, running,
                   chan, stream, calls, submitted, result>>

\* m(output): the closure runs; a reactor closure is output_callback on the
\* sender it owns.  The call is logged with the id the dispatcher resolved.
Invoke(m, id, output) ==
    /\ calls' = [calls EXCEPT ![m] = Append(@, [id |-> id, out |-> output])]
    /\ chan' = IF \E b \in Bridges : bridges[b].rx = m
               THEN [chan EXCEPT ![m] = output_callback(@, output)]
               ELSE chan

\* Every live handler of the registry, in id order, gets the output.
RECURSIVE Broadcast(_, _, _, _)
Broadcast(map, ids, log, output) ==
    IF ids = {} THEN log
    ELSE LET h == CHOOSE x \in ids : \A y \in ids : x <= y
             m == map[h]
         IN Broadcast(map, ids \ {h},
                      IF Upgrade(m)
                      THEN [log EXCEPT ![m] = Append(@, [id |-> h, out |-> output])]
                      ELSE log,
                      output)

\* Mutant: the id is not looked up; every live handler is invoked.
ProcessOutput_Broadcast(w, id, output) ==
    /\ TotalCalls < MaxInvocations
    /\ calls' = Broadcast(callbacks[w], HandlerIds, calls, output)
    /\ UNCHANGED <<spawner, nextId, nCallbacks, bridges, pending_queue, callbacks,
                   posted, running, chan, stream, submitted, nLoaded, result>>

\* Mutant: a stale entry makes the dispatcher clear the whole registry.
ProcessOutput_PruneAll(w, id, output) ==
    /\ LET m == Get(callbacks[w], id)
       IN IF m # 0
          THEN IF Upgrade(m)
               THEN /\ TotalCalls < MaxInvocations
                    /\ Invoke(m, id, output)
                    /\ UNCHANGED callbacks
               ELSE /\ callbacks' = [callbacks EXCEPT ![w] = EmptyMap]
                    /\ UNCHANGED <<calls, chan>>
          ELSE UNCHANGED <<callbacks, calls, chan>>
    /\ UNCHANGED <<spawner, nextId, nCallbacks, bridges, pending_queue, posted,
                   running, stream, submitted, nLoaded, result>>

\* Mutant: the weak reference is used without upgrading it.
ProcessOutput_NoUpgrade(w, id, output) ==
    /\ UNCHANGED <<spawner, nextId, nCallbacks, bridges, pending_queue, posted,
                   running, stream, submitted, nLoaded, result>>
    /\ LET m == Get(callbacks[w], id)
       IN IF m # 0
          THEN /\ TotalCalls < MaxInvocations
               /\ Invoke(m, id, output)
               /\ UNCHANGED callbacks
          ELSE UNCHANGED <<callbacks, calls, chan>>

\* Mutant: an id without an entry falls back to the first live handler.
ProcessOutput_MissFallsBack(w, id, output) ==
    /\ UNCHANGED <<spawner, nextId, nCallbacks, bridges, pending_queue, posted,
                   running, stream, submitted, nLoaded, result>>
    /\ LET m == Get(callbacks[w], id)
           live == {h \in HandlerIds : Upgrade(callbacks[w][h])}
       IN IF m # 0
          THEN IF Upgrade(m)
               THEN /\ TotalCalls < MaxInvocations
                    /\ Invoke(m, id, output)
                    /\ UNCHANGED callbacks
               ELSE /\ callbacks' = [callbacks EXCEPT ![w] = Remove(@, id)]
                    /\ UNCHANGED <<calls, chan>>
          ELSE IF live # {}
               THEN /\ TotalCalls < MaxInvocations
                    /\ Invoke(callbacks[w][CHOOSE h \in live : \A g \in live : h <= g],
                              id, output)
                    /\ UNCHANGED callbacks
               ELSE UNCHANGED <<callbacks, calls, chan>>

\* Mutant: an output from the worker is taken as a sign of readiness and the
\* Pending Queue is flushed before the dispatch.
ProcessOutput_FlushesQueue(w, id, output) ==
    /\ IF pending_queue[w].some
       THEN /\ pending_queue' = [pending_queue EXCEPT ![w] = [some |-> FALSE, q |-> <<>>]]
            /\ posted' = [posted EXCEPT ![w] = @ \o pending_queue[w].q]
       ELSE UNCHANGED <<pending_queue, posted>>
    /\ UNCHANGED <<spawner, nextId, nCallbacks, bridges, running, stream,
                   submitted, nLoaded, result>>
    /\ LET m == Get(callbacks[w], id)
       IN IF m # 0
          THEN IF Upgrade(m)
               THEN /\ TotalCalls < MaxInvocations
                    /\ Invoke(m, id, output)
                    /\ UNCHANGED callbacks
               ELSE /\ callbacks' = [callbacks EXCEPT ![w] = Remove(@, id)]
                    /\ UNCHANGED <<calls, chan>>
          ELSE UNCHANGED <<callbacks, calls, chan>>

\* FromWorker::ProcessOutput(id, output)
ProcessOutput(w, id, output) ==
    /\ UNCHANGED <<spawner, nextId, nCallbacks, bridges, pending_queue, posted,
                   running, stream, submitted, nLoaded, result>>
    /\ LET m == Get(callbacks[w], id)
       IN IF m # 0
          THEN IF Upgrade(m)
               THEN /\ TotalCalls < MaxInvocations
                    /\ Invoke(m, id, output)
                    /\ UNCHANGED callbacks
               ELSE /\ callbacks' = [callbacks EXCEPT ![w] = Remove(@, id)]
                    /\ UNCHANGED <<calls, chan>>
          ELSE UNCHANGED <<callbacks, calls, chan>>

\* ------------------------------------------------------------------ Bridge
\* Bridge::send: buffered while the queue is active, else posted at once
BridgeSend(b, msg) ==
    LET w == bridges[b].w
        to_worker == [id |-> bridges[b].id, msg |-> msg]
    IN /\ IF pending_queue[w].some
          THEN /\ pending_queue' = [pending_queue EXCEPT ![w].q = Append(@, to_worker)]
               /\ UNCHANGED posted
          ELSE /\ posted' = [posted EXCEPT ![w] = Append(@, to_worker)]
               /\ UNCHANGED pending_queue
       /\ submitted' = [submitted EXCEPT ![w] =
                           Append(@, [msg |-> to_worker, loaded |-> nLoaded[w] > 0])]

\* ReactorBridge::send_input
send_input(b, m) == BridgeSend(b, Input(m))

\* Mutant: a Finished connection refuses further input.
start_send_RejectWhenFinished(b, m) ==
    /\ bridges[b].alive
    /\ TotalSends < MaxSends
    /\ IF bridges[b].rx # 0 /\ chan[bridges[b].rx].closed
       THEN /\ result' = "Closed"
            /\ UNCHANGED <<pending_queue, posted, submitted>>
       ELSE /\ send_input(b, m)
            /\ result' = "Ok"
    /\ UNCHANGED <<spawner, nextId, nCallbacks, bridges, callbacks, running,
                   chan, stream, calls, nLoaded>>

\* Sink::poll_ready
poll_ready(b) ==
    /\ bridges[b].alive
    /\ result' = "Ok"
    /\ UNCHANGED <<spawner, nextId, nCallbacks, bridges, pending_queue, callbacks,
                   posted, running, chan, stream, calls, submitted, nLoaded>>

\* Sink::poll_flush
poll_flush(b) ==
    /\ bridges[b].alive
    /\ result' = "Ok"
    /\ UNCHANGED <<spawner, nextId, nCallbacks, bridges, pending_queue, callbacks,
                   posted, running, chan, stream, calls, submitted, nLoaded>>

\* Sink::start_send
start_send(b, m) ==
    /\ bridges[b].alive
    /\ TotalSends < MaxSends
    /\ send_input(b, m)
    /\ result' = "Ok"
    /\ UNCHANGED <<spawner, nextId, nCallbacks, bridges, callbacks, running,
                   chan, stream, calls, nLoaded>>

\* Bridge::fork(cb): a new HandlerId on the same worker; with a callback the
\* weak reference is registered and the Bridge owns the closure.
BridgeFork(b, c) ==
    LET handler_id == HandlerIdNew
        w == bridges[b].w
    IN /\ nextId' = nextId + 1
       /\ callbacks' = IF c # 0
                       THEN [callbacks EXCEPT ![w] = Insert(@, handler_id, c)]
                       ELSE callbacks
       /\ bridges' = Append(bridges, [id |-> handler_id, w |-> w, cb |-> c,
                                      rx |-> c, alive |-> TRUE])

\* Mutant: the forked connection reuses the closure and channel of its parent.
fork_SharedChannel(b) ==
    /\ bridges[b].alive
    /\ nextId <= MaxHandlers
    /\ BridgeFork(b, bridges[b].rx)
    /\ UNCHANGED <<spawner, nCallbacks, chan, stream, calls, pending_queue,
                   posted, running, submitted, nLoaded, result>>

\* ReactorBridge::fork: a fresh channel, the closure owns its sender
fork(b) ==
    /\ bridges[b].alive
    /\ nextId <= MaxHandlers
    /\ nCallbacks < MaxCallbacks
    /\ nCallbacks' = nCallbacks + 1
    /\ chan' = Append(chan, NewChan)
    /\ stream' = Append(stream, NewStream)
    /\ calls' = Append(calls, <<>>)
    /\ BridgeFork(b, nCallbacks + 1)
    /\ UNCHANGED <<spawner, pending_queue, posted, running, submitted, nLoaded,
                   result>>

\* Bridge::fork(None): an input-only connection
fork_none(b) ==
    /\ bridges[b].alive
    /\ nextId <= MaxHandlers
    /\ BridgeFork(b, 0)
    /\ UNCHANGED <<spawner, nCallbacks, chan, stream, pending_queue, posted,
                   running, calls, submitted, nLoaded, result>>

\* Drop of a Bridge: its strong callback reference is released; the physical
\* worker lives until its last handle is gone.
BridgeDrop(b) ==
    /\ bridges[b].alive
    /\ bridges' = [bridges EXCEPT ![b].alive = FALSE]
    /\ running' = [running EXCEPT ![bridges[b].w] =
                      \E o \in Bridges : /\ o # b
                                         /\ bridges[o].alive
                                         /\ bridges[o].w = bridges[b].w]
    /\ UNCHANGED <<spawner, nextId, nCallbacks, pending_queue, callbacks, posted,
                   chan, stream, calls, submitted, nLoaded, result>>

\* ------------------------------------------- handlers that use a Bridge
\* The ProcessOutput branch holds callbacks.borrow_mut() from the lookup to
\* the end of the branch, so the closure m runs while the registry RefCell
\* is mutably borrowed.  The three actions below are ProcessOutput(w, id,
\* output) for a live handler whose closure performs one Bridge operation
\* on the same worker before it returns.

\* The closure calls send on Bridge b: send uses the Pending Queue or the
\* worker handle, not the registry.
HandlerSend(w, id, output, b, msg) ==
    LET m == Get(callbacks[w], id)
    IN /\ Upgrade(m)
       /\ bridges[b].alive /\ bridges[b].w = w
       /\ TotalCalls < MaxInvocations
       /\ TotalSends < MaxSends
       /\ Invoke(m, id, output)
       /\ BridgeSend(b, msg)
       /\ UNCHANGED <<spawner, nextId, nCallbacks, bridges, callbacks, running,
                      stream, nLoaded, result>>

\* The closure drops Bridge b: the strong reference is released (the closure
\* that is running is kept by the dispatcher's upgraded Rc until it returns).
HandlerDrop(w, id, output, b) ==
    LET m == Get(callbacks[w], id)
    IN /\ Upgrade(m)
       /\ bridges[b].alive /\ bridges[b].w = w
       /\ TotalCalls < MaxInvocations
       /\ Invoke(m, id, output)
       /\ bridges' = [bridges EXCEPT ![b].alive = FALSE]
       /\ running' = [running EXCEPT ![w] =
                         \E o \in Bridges : /\ o # b
                                            /\ bridges[o].alive
                                            /\ bridges[o].w = w]
       /\ UNCHANGED <<spawner, nextId, nCallbacks, pending_queue, callbacks,
                      posted, stream, submitted, nLoaded, result>>

\* The closure calls fork with a callback on Bridge b: registering it needs
\* the registry RefCell, which the dispatcher still has mutably borrowed, so
\* the borrow fails (BorrowMutError) and the dispatch does not complete.
\* Nothing is registered and no Bridge is returned; the HandlerId may or may
\* not have been taken before the failure.
HandlerFork(w, id, output, b) ==
    LET m == Get(callbacks[w], id)
    IN /\ Upgrade(m)
       /\ bridges[b].alive /\ bridges[b].w = w
       /\ TotalCalls < MaxInvocations
       /\ nextId <= MaxHandlers
       /\ nCallbacks < MaxCallbacks
       /\ calls' = [calls EXCEPT ![m] = Append(@, [id |-> id, out |-> output])]
       /\ nextId' \in {nextId, nextId + 1}
       /\ result' = "BorrowMutError"
       /\ UNCHANGED <<spawner, nCallbacks, bridges, pending_queue, callbacks,
                      posted, running, chan, stream, submitted, nLoaded>>

\* ------------------------------------------------------ Stream and Sink
\* Stream::poll_next on the connection's receiver
poll_next(b) ==
    /\ bridges[b].alive
    /\ bridges[b].rx # 0
    /\ LET c == bridges[b].rx
           ch == chan[c]
       IN IF ch.items # <<>>
          THEN /\ chan' = [chan EXCEPT ![c].items = Tail(@)]
               /\ stream' = [stream EXCEPT ![c].yielded = Append(@, Head(ch.items))]
          ELSE IF ch.closed
          THEN /\ stream' = [stream EXCEPT ![c].done = TRUE]
               /\ UNCHANGED chan
          ELSE UNCHANGED <<chan, stream>>
    /\ UNCHANGED <<spawner, nextId, nCallbacks, bridges, pending_queue, callbacks,
                   posted, running, calls, submitted, nLoaded, result>>

\* Mutant: closing the sink closes the delivery channel and reports success.
poll_close_Closes(b) ==
    /\ bridges[b].alive
    /\ result' = "Ok"
    /\ chan' = IF bridges[b].rx # 0
               THEN [chan EXCEPT ![bridges[b].rx].closed = TRUE]
               ELSE chan
    /\ UNCHANGED <<spawner, nextId, nCallbacks, bridges, pending_queue, callbacks,
                   posted, running, stream, calls, submitted, nLoaded>>

\* Sink::poll_close
poll_close(b) ==
    /\ bridges[b].alive
    /\ result' = "AttemptClosure"
    /\ UNCHANGED <<spawner, nextId, nCallbacks, bridges, pending_queue, callbacks,
                   posted, running, chan, stream, calls, submitted, nLoaded>>

\* ------------------------------------------------------- specifications
\* The operations are checked in groups.  The send side touches only
\* pending_queue, posted, submitted, nLoaded and result; the output side
\* touches only callbacks, calls, chan and stream; they meet in SpecConnection.

\* Caller to worker: the Pending Queue and readiness, for several workers and
\* Bridges.  The Spawner is used as created (no callback configured);
\* callbacks come from fork.
NextInput ==
    \/ spawn
    \/ \E b \in Bridges : fork(b)
    \/ \E b \in Bridges : fork_none(b)
    \/ \E b \in Bridges : BridgeDrop(b)
    \/ \E w \in Workers : WorkerLoaded(w)
    \/ \E b \in Bridges, m \in Inputs : start_send(b, m)
    \/ \E b \in Bridges : poll_close(b)

\* Worker to caller: the Callback Registry and dispatch, for several workers
\* spawned from one Spawner value, and their forks.
NextDispatch ==
    \/ callback
    \/ DropSpawner
    \/ spawn
    \/ \E b \in Bridges : fork(b)
    \/ \E b \in Bridges : BridgeDrop(b)
    \/ \E w \in Workers, id \in HandlerIds, output \in ReactorOutput :
          ProcessOutput(w, id, output)

\* Reactor connections (spawned and forked) and their output streams.
NextReactor ==
    \/ new
    \/ reactor_spawn
    \/ \E b \in Bridges : fork(b)
    \/ \E b \in Bridges : BridgeDrop(b)
    \/ \E w \in Workers, id \in HandlerIds, output \in ReactorOutput :
          ProcessOutput(w, id, output)
    \/ \E b \in Bridges : poll_next(b)

\* One reactor connection and every operation on it, from Buffering through
\* Flowing to Finished.
NextConnection ==
    \/ reactor_spawn
    \/ \E b \in Bridges : BridgeDrop(b)
    \/ \E w \in Workers : WorkerLoaded(w)
    \/ \E w \in Workers, id \in HandlerIds, output \in ReactorOutput :
          ProcessOutput(w, id, output)
    \/ \E b \in Bridges, m \in Inputs : start_send(b, m)
    \/ \E b \in Bridges : poll_next(b)
    \/ \E b \in Bridges : poll_close(b)
    \/ \E b \in Bridges : poll_ready(b)
    \/ \E b \in Bridges : poll_flush(b)

\* Several workers spawned from one Spawner value, with and without a
\* callback, and both directions of traffic on each of them.
NextWorkers ==
    \/ callback
    \/ spawn
    \/ \E b \in Bridges : fork_none(b)
    \/ \E w \in Workers : WorkerLoaded(w)
    \/ \E w \in Workers, id \in HandlerIds, output \in ReactorOutput :
          ProcessOutput(w, id, output)
    \/ \E b \in Bridges, m \in Inputs : start_send(b, m)

\* Dispatch to handlers that use a Bridge of the same worker while they run.
\* A failed dispatch ends the program.
NextReentrant ==
    \/ result # "BorrowMutError" /\ callback
    \/ result # "BorrowMutError" /\ spawn
    \/ result # "BorrowMutError" /\ \E b \in Bridges : fork(b)
    \/ result # "BorrowMutError" /\
          \E w \in Workers, id \in HandlerIds, output \in ReactorOutput,
             b \in Bridges, m \in Inputs : HandlerSend(w, id, output, b, Input(m))
    \/ result # "BorrowMutError" /\
          \E w \in Workers, id \in HandlerIds, output \in ReactorOutput,
             b \in Bridges : HandlerDrop(w, id, output, b)
    \/ result # "BorrowMutError" /\
          \E w \in Workers, id \in HandlerIds, output \in ReactorOutput,
             b \in Bridges : HandlerFork(w, id, output, b)

Next == NextInput \/ NextReentrant \/ NextDispatch \/ NextReactor \/ NextConnection \/ NextWorkers

SpecInput == Init /\ [][NextInput]_vars
\* The send side when every worker's WorkerLoaded signal is eventually handled.
SpecInputFair ==
    /\ Init /\ [][NextInput]_vars
    /\ \A w \in 1..MaxHandlers : WF_vars(w \in Workers /\ WorkerLoaded(w))
SpecDispatch == Init /\ [][NextDispatch]_vars
SpecReactor == Init /\ [][NextReactor]_vars
SpecConnection == Init /\ [][NextConnection]_vars
SpecWorkers == Init /\ [][NextWorkers]_vars
SpecReentrant == Init /\ [][NextReentrant]_vars
Spec == Init /\ [][Next]_vars

\* ------------------------------------------------------------------ claims
\* The send calls of worker w made before / after WorkerLoaded was first
\* handled, in the order they were called.
Msgs(log) == [i \in 1..Len(log) |-> log[i].msg]
Pre(w) == Msgs(SelectSeq(submitted[w], LAMBDA e : ~e.loaded))
Post(w) == Msgs(SelectSeq(submitted[w], LAMBDA e : e.loaded))

\* C1: whatever was sent before WorkerLoaded is handled, by any Bridge of the
\* worker, reaches the worker only once WorkerLoaded is handled, and then in
\* the global order of the send calls.
C1_FlushInSubmissionOrder ==
    \A w \in Workers :
        /\ nLoaded[w] = 0 => posted[w] = <<>>
        /\ nLoaded[w] > 0 =>
              /\ Len(posted[w]) >= Len(Pre(w))
              /\ SubSeq(posted[w], 1, Len(Pre(w))) = Pre(w)

\* Two different Bridges sent before readiness, and the flush has happened.
C1_Witness ==
    \E w \in Workers :
        /\ nLoaded[w] > 0
        /\ Len(Pre(w)) = 2
        /\ Pre(w)[1].id # Pre(w)[2].id
        /\ Len(posted[w]) = 2

\* C4: a message submitted while the Pending Queue is active is transmitted
\* exactly once, once WorkerLoaded is handled, and before every message
\* submitted after readiness.
C4_ExactlyOnceBeforeLater ==
    \A w \in Workers :
        IF nLoaded[w] = 0
        THEN /\ posted[w] = <<>>
             /\ pending_queue[w].some
             /\ pending_queue[w].q = Pre(w)
        ELSE posted[w] = Pre(w) \o Post(w)

\* Messages from before and from after readiness have both been sent, and
\* WorkerLoaded was handled twice.
C4_Witness ==
    \E w \in Workers :
        /\ nLoaded[w] = 2
        /\ Pre(w) # <<>>
        /\ Post(w) # <<>>

\* C9: handling WorkerLoaded again transmits nothing, leaves the Pending
\* Queue closed and leaves the Callback Registry as it was.
C9_SecondWorkerLoadedNoOp ==
    [][\A w \in Workers :
          (nLoaded[w] >= 1 /\ WorkerLoaded(w)) =>
              /\ posted' = posted
              /\ pending_queue' = pending_queue
              /\ ~pending_queue'[w].some
              /\ callbacks' = callbacks
              /\ bridges' = bridges]_vars

\* WorkerLoaded was handled a second time after a flush and a later send.
C9_Witness ==
    \E w \in Workers :
        /\ nLoaded[w] = 2
        /\ Len(posted[w]) = 2
        /\ \E h \in HandlerIds : callbacks[w][h] # 0

\* The Bridge that was issued HandlerId id has been dropped.
OwnerDropped(id) ==
    /\ \E b \in Bridges : bridges[b].id = id
    /\ \A b \in Bridges : bridges[b].id = id => ~bridges[b].alive

\* C2: once the Bridge owning H is dropped, handling ProcessOutput(H, x)
\* invokes no output handler, whatever else is still alive.
C2_NoOutputAfterDrop ==
    [][\A w \in Workers, id \in HandlerIds, output \in ReactorOutput :
          (OwnerDropped(id) /\ ProcessOutput(w, id, output)) =>
              calls' = calls]_vars

\* C3: ProcessOutput(id, payload) invokes the live handler registered under
\* id in this worker's registry once with that payload and no other handler;
\* without such a handler it invokes nothing.
C3_ExactlyOneHandler ==
    [][\A w \in Workers, id \in HandlerIds, output \in ReactorOutput :
          (vars' # vars /\ ProcessOutput(w, id, output)) =>
              LET m == Get(callbacks[w], id)
              IN IF m # 0 /\ Alive(m)
                 THEN /\ calls' = [calls EXCEPT ![m] =
                                     Append(@, [id |-> id, out |-> output])]
                      /\ \A h \in HandlerIds \ {id} : callbacks[w][h] # m
                 ELSE calls' = calls]_vars

\* One handler of a registry with two live handlers has been invoked, the
\* other has not.
C3_Witness ==
    \E w \in Workers, h1, h2 \in HandlerIds :
        /\ h1 # h2
        /\ Upgrade(callbacks[w][h1])
        /\ Upgrade(callbacks[w][h2])
        /\ Len(calls[callbacks[w][h1]]) = 2
        /\ calls[callbacks[w][h1]][1].out # calls[callbacks[w][h1]][2].out
        /\ calls[callbacks[w][h2]] = <<>>

\* A live Bridge with a callback has its registry entry, and it resolves.
Registered(o) ==
    bridges[o].alive /\ bridges[o].cb # 0 =>
        /\ callbacks[bridges[o].w][bridges[o].id] = bridges[o].cb
        /\ Upgrade(bridges[o].cb)

\* What dropping Bridge b leaves alone.
DropFrame(b) ==
    /\ callbacks' = callbacks
    /\ pending_queue' = pending_queue
    /\ posted' = posted
    /\ chan' = chan
    /\ calls' = calls
    /\ \A o \in Bridges \ {b} : bridges'[o] = bridges[o] /\ Registered(o)'
    /\ \A w \in Workers :
          running'[w] = (running[w] /\ \E o \in Bridges :
                                          bridges'[o].alive /\ bridges'[o].w = w)

\* C5: dropping a Bridge leaves every surviving Bridge of the worker as it
\* was: its registry entry stays and resolves (in every reachable state, so
\* outputs addressed to it still reach its handler), queue and transmitted
\* messages are untouched, and the worker runs while a Bridge is left.
C5_DropLeavesSiblings ==
    /\ [](\A o \in Bridges : Registered(o))
    /\ [][\A b \in Bridges : BridgeDrop(b) => DropFrame(b)]_vars

\* A forked Bridge outlives the dropped first Bridge: the dropped one's
\* stale entry was pruned, the fork's handler was invoked afterwards, and
\* the worker still runs.
C5_Witness ==
    \E a, o \in Bridges :
        /\ bridges[a].w = bridges[o].w
        /\ ~bridges[a].alive /\ bridges[a].cb # 0
        /\ callbacks[bridges[a].w][bridges[a].id] = 0
        /\ bridges[o].alive /\ bridges[o].cb # 0
        /\ calls[bridges[o].cb] # <<>>
        /\ running[bridges[o].w]

\* C10: HandlerIds are never issued twice, so no two Bridges share one and a
\* HandlerId is a key of at most one worker's registry.
C10_HandlerIdsUnique ==
    /\ \A a, b \in Bridges :
          a # b => bridges[a].id # bridges[b].id
    /\ \A b \in Bridges : bridges[b].id < nextId
    /\ \A w1, w2 \in Workers, h \in HandlerIds :
          callbacks[w1][h] # 0 /\ callbacks[w2][h] # 0 => w1 = w2
    /\ \A w \in Workers, h \in HandlerIds :
          callbacks[w][h] # 0 =>
              \E b \in Bridges : bridges[b].id = h /\ bridges[b].w = w

\* Two workers, each with a registered handler of its own.
C10_Witness ==
    \E w1, w2 \in Workers, h1, h2 \in HandlerIds :
        /\ w1 # w2
        /\ callbacks[w1][h1] # 0
        /\ callbacks[w2][h2] # 0

\* The Output items of a call log up to its first Finish.
RECURSIVE PreFinish(_)
PreFinish(log) ==
    IF log = <<>> \/ Head(log).out.tag = "Finish" THEN <<>>
    ELSE <<Head(log).out.m>> \o PreFinish(Tail(log))

Finished(c) == \E i \in 1..Len(calls[c]) : calls[c][i].out = Finish

\* The reactor connections: the Bridges that hold a receiver.
Reactors == {b \in Bridges : bridges[b].rx # 0}

\* C6: once Finish was handled for a connection, nothing handled later is
\* ever yielded, and after the stream yielded termination it yields nothing.
C6_FinishIsTerminal ==
    [][\A b \in Reactors :
          LET c == bridges[b].rx
          IN /\ Finished(c) =>
                  /\ stream'[c].yielded \o chan'[c].items
                        = stream[c].yielded \o chan[c].items
                  /\ chan'[c].closed
             /\ stream[c].done => stream'[c] = stream[c]]_vars

\* An Output was handled after Finish, and the stream has terminated.
C6_Witness ==
    \E b \in Reactors :
        LET c == bridges[b].rx
        IN /\ stream[c].done
           /\ \E i, j \in 1..Len(calls[c]) :
                 /\ i < j
                 /\ calls[c][i].out = Finish
                 /\ calls[c][j].out.tag = "Output"

\* C7: every output handled for a live connection's HandlerId reaches its
\* closure, and the stream yields the Output items handled before the first
\* Finish, in order, each once (those not yet polled are still queued), and
\* then termination.
C7_Stream(b) ==
    LET c == bridges[b].rx
    IN /\ \A i \in 1..Len(calls[c]) : calls[c][i].id = bridges[b].id
       /\ stream[c].yielded \o chan[c].items = PreFinish(calls[c])
       /\ chan[c].closed <=> Finished(c)
       /\ stream[c].done => Finished(c) /\ stream[c].yielded = PreFinish(calls[c])

C7_StreamYieldsItemsThenEnds ==
    /\ [](\A b \in Reactors : C7_Stream(b))
    /\ [][\A b \in Reactors :
            LET c == bridges[b].rx
            IN /\ (poll_next(b) /\ Finished(c) /\ chan[c].items = <<>>) =>
                      stream'[c].done
               /\ \A output \in ReactorOutput :
                     (bridges[b].alive /\ vars' # vars
                        /\ ProcessOutput(bridges[b].w, bridges[b].id, output)) =>
                         calls'[c] = Append(calls[c], [id |-> bridges[b].id,
                                                       out |-> output])]_vars

\* Two items and Finish were handled before the first poll; the stream then
\* yielded both items and termination.
C7_Witness ==
    \E b \in Reactors :
        LET c == bridges[b].rx
        IN /\ stream[c].done
           /\ Len(stream[c].yielded) = 2
           /\ stream[c].yielded[1] # stream[c].yielded[2]
           /\ calls[c][3].out = Finish

\* C8: poll_close returns AttemptClosure and changes nothing else.
C8_PollCloseFails ==
    [][\A b \in Bridges :
          poll_close(b) =>
              /\ result' = "AttemptClosure"
              /\ UNCHANGED <<bridges, callbacks, chan, stream, pending_queue,
                             posted, running, calls>>]_vars

\* The close was refused on a Finished connection whose worker is ready and
\* has received a message.
C8_Witness ==
    \E b \in Reactors :
        /\ result = "AttemptClosure"
        /\ bridges[b].alive
        /\ Finished(bridges[b].rx)
        /\ posted[bridges[b].w] # <<>>

\* C11: ProcessOutput(h, x) for a registered h whose handler is no longer
\* alive removes the entry of h, invokes nothing and leaves every other
\* entry as it was; ProcessOutput(h2, y) for a live forked Bridge h2 invokes
\* the handler of h2 with y once.
C11_StalePrunedForkStillServed ==
    [][/\ \A w \in Workers, id \in HandlerIds, output \in ReactorOutput :
             LET m == Get(callbacks[w], id)
             IN (m # 0 /\ ~Alive(m) /\ ProcessOutput(w, id, output)) =>
                    /\ callbacks' = [callbacks EXCEPT ![w] = Remove(@, id)]
                    /\ calls' = calls
                    /\ chan' = chan
       /\ \A b \in Bridges, output \in ReactorOutput :
             (/\ bridges[b].alive
              /\ bridges[b].cb # 0
              /\ \E a \in Bridges : a < b /\ bridges[a].w = bridges[b].w
              /\ ProcessOutput(bridges[b].w, bridges[b].id, output)) =>
                 /\ calls' = [calls EXCEPT ![bridges[b].cb] =
                                Append(@, [id |-> bridges[b].id, out |-> output])]
                 /\ callbacks' = callbacks]_vars

\* The first Bridge's stale entry was pruned without a call of its handler;
\* the fork's handler was then invoked once.
C11_Witness ==
    \E a, o \in Bridges :
        /\ a < o
        /\ bridges[a].w = bridges[o].w
        /\ ~bridges[a].alive /\ bridges[a].cb # 0
        /\ callbacks[bridges[a].w][bridges[a].id] = 0
        /\ calls[bridges[a].cb] = <<>>
        /\ bridges[o].alive /\ bridges[o].cb # 0
        /\ callbacks[bridges[o].w][bridges[o].id] = bridges[o].cb
        /\ Len(calls[bridges[o].cb]) = 1

\* C12: ProcessOutput(id, payload) for an id without an entry in the worker's
\* registry changes nothing: no handler is invoked, registry and Pending
\* Queue stay, nothing is transmitted, no result is reported.
C12_MissIsSilentNoOp ==
    [][\A w \in Workers, id \in HandlerIds, output \in ReactorOutput :
          (Get(callbacks[w], id) = 0 /\ vars' # vars
             /\ ProcessOutput(w, id, output)) =>
              UNCHANGED vars]_vars

\* An id is registered on one worker and absent on another whose Pending
\* Queue holds a message and whose own handler is live.
C12_Witness ==
    \E w1, w2 \in Workers, id \in HandlerIds :
        /\ w1 # w2
        /\ callbacks[w1][id] = 0
        /\ callbacks[w2][id] # 0
        /\ \E h \in HandlerIds : Upgrade(callbacks[w1][h])
        /\ pending_queue[w1].q # <<>>
        /\ posted[w2] # <<>>

\* C13: the Pending Queue of a worker starts active and empty at spawn, is
\* closed by the first WorkerLoaded and is never active again; once it is
\* closed every send is transmitted at once and nothing is appended to it.
C13_QueueClosesOnce ==
    /\ [](\A w \in Workers :
             /\ pending_queue[w].some <=> nLoaded[w] = 0
             /\ ~pending_queue[w].some => pending_queue[w].q = <<>>)
    /\ [][/\ Len(pending_queue') > Len(pending_queue) =>
                pending_queue'[Len(pending_queue')] = [some |-> TRUE, q |-> <<>>]
          /\ \A w \in Workers :
                /\ ~pending_queue[w].some => pending_queue'[w] = pending_queue[w]
                /\ (pending_queue[w].some /\ ~pending_queue'[w].some) =>
                       nLoaded[w] = 0 /\ nLoaded'[w] = 1
          /\ \A b \in Bridges, m \in Inputs :
                (~pending_queue[bridges[b].w].some /\ start_send(b, m)) =>
                    posted' = [posted EXCEPT ![bridges[b].w] =
                                 Append(@, [id |-> bridges[b].id, msg |-> Input(m)])]
         ]_vars

\* Two messages were sent after the queue was closed, WorkerLoaded was
\* handled twice; both were transmitted and the queue is still closed.
C13_Witness ==
    \E w \in Workers :
        /\ nLoaded[w] = 2
        /\ Pre(w) = <<>>
        /\ Len(Post(w)) = 2
        /\ posted[w] = Post(w)
        /\ ~pending_queue[w].some

\* C14: connections made by fork are independent: each has its own channel
\* and sees only outputs handled for its own HandlerId; Finish handled for
\* one connection leaves every other connection's channel and stream, and
\* the worker, as they were; a sibling that is not Finished still gets the
\* Output items handled for its id and yields them.
C14_ForksAreIndependent ==
    /\ [](\A b \in Reactors :
             LET c == bridges[b].rx
             IN /\ \A o \in Reactors \ {b} : bridges[o].rx # c
                /\ \A i \in 1..Len(calls[c]) : calls[c][i].id = bridges[b].id
                /\ ~Finished(c) => ~chan[c].closed /\ ~stream[c].done)
    /\ [][\A b \in Reactors :
             LET c == bridges[b].rx
                 w == bridges[b].w
             IN /\ (bridges[b].alive /\ vars' # vars
                      /\ ProcessOutput(w, bridges[b].id, Finish)) =>
                       /\ chan'[c].closed
                       /\ \A o \in Reactors \ {b} :
                             /\ chan'[bridges[o].rx] = chan[bridges[o].rx]
                             /\ calls'[bridges[o].rx] = calls[bridges[o].rx]
                       /\ UNCHANGED <<stream, running, callbacks, bridges,
                                      pending_queue, posted>>
                /\ \A m \in Items :
                      (bridges[b].alive /\ ~Finished(c) /\ vars' # vars
                         /\ ProcessOutput(w, bridges[b].id, Output(m))) =>
                          chan'[c].items = Append(chan[c].items, m)
                /\ (poll_next(b) /\ chan[c].items # <<>>) =>
                      stream'[c].yielded = Append(stream[c].yielded,
                                                  Head(chan[c].items))]_vars

\* One connection of a worker is Finished and its stream has ended; its
\* sibling on the same worker has yielded two items and is still open.
C14_Witness ==
    \E b, o \in Reactors :
        /\ b # o
        /\ bridges[b].w = bridges[o].w
        /\ bridges[b].alive /\ bridges[o].alive
        /\ stream[bridges[b].rx].done
        /\ ~Finished(bridges[o].rx)
        /\ Len(stream[bridges[o].rx].yielded) = 2
        /\ running[bridges[o].w]

\* C15: a handler may use a Bridge of the same worker while the dispatcher
\* invokes it (send, fork with a callback, drop): the dispatch completes
\* without failure and afterwards the registry holds what it held before
\* plus the entries of the forks made inside the handler.
C15_HandlerMayUseBridge ==
    /\ [](result # "BorrowMutError")
    /\ [][\A w \in Workers, id \in HandlerIds, output \in ReactorOutput,
            b \in Bridges :
             /\ HandlerFork(w, id, output, b) =>
                   \E h \in HandlerIds :
                      /\ callbacks[w][h] = 0
                      /\ callbacks'[w][h] # 0
                      /\ callbacks' = [callbacks EXCEPT ![w] =
                                         Insert(@, h, callbacks'[w][h])]
             /\ HandlerDrop(w, id, output, b) => callbacks' = callbacks
             /\ \A m \in Inputs :
                   HandlerSend(w, id, output, b, Input(m)) =>
                       callbacks' = callbacks]_vars

\* C16: the input side of a reactor connection accepts items in every state:
\* poll_ready and poll_flush succeed, start_send returns no error, and each
\* accepted item is forwarded as one Input message through the Bridge
\* (queued before readiness, transmitted afterwards), in the order accepted.
C16_SinkAlwaysAccepts ==
    /\ [](\A w \in Workers :
             /\ posted[w] \o pending_queue[w].q = Msgs(submitted[w])
             /\ \A i \in 1..Len(submitted[w]) :
                   submitted[w][i].msg.msg.tag = "Input")
    /\ [][\A b \in Reactors :
             LET w == bridges[b].w
             IN /\ (poll_ready(b) \/ poll_flush(b)) =>
                      /\ result' = "Ok"
                      /\ UNCHANGED <<pending_queue, posted, chan, stream, bridges>>
                /\ \A m \in Inputs :
                      start_send(b, m) =>
                         LET to_worker == [id |-> bridges[b].id, msg |-> Input(m)]
                         IN /\ result' = "Ok"
                            /\ IF nLoaded[w] = 0
                               THEN /\ pending_queue'[w].q =
                                          Append(pending_queue[w].q, to_worker)
                                    /\ posted' = posted
                               ELSE /\ posted'[w] = Append(posted[w], to_worker)
                                    /\ pending_queue' = pending_queue]_vars

\* A Finished connection whose stream has ended accepted one item before
\* readiness and one after it; both reached the worker in that order and the
\* last Sink call succeeded.
C16_Witness ==
    \E b \in Reactors :
        LET w == bridges[b].w
        IN /\ bridges[b].alive
           /\ stream[bridges[b].rx].done
           /\ Len(submitted[w]) = 2
           /\ ~submitted[w][1].loaded
           /\ submitted[w][2].loaded
           /\ posted[w] = Msgs(submitted[w])
           /\ posted[w][1] # posted[w][2]
           /\ result = "Ok"

\* The send calls made through the Bridge that was issued HandlerId id.
SentBy(w, id) == SelectSeq(Msgs(submitted[w]), LAMBDA e : e.id = id)

\* C17: a connection made without an output callback (spawn with none
\* configured, fork with none) has no registry entry; outputs addressed to
\* its HandlerId invoke no handler; its send does what the send of a
\* connection with a callback does.
C17_NoCallbackNoEntry ==
    /\ [](\A b \in Bridges :
             bridges[b].cb = 0 =>
                 \A w \in Workers : callbacks[w][bridges[b].id] = 0)
    /\ [][/\ \A b \in Bridges, w \in Workers, output \in ReactorOutput :
                (bridges[b].cb = 0 /\ vars' # vars
                   /\ ProcessOutput(w, bridges[b].id, output)) => calls' = calls
          /\ \A b \in Bridges, m \in Inputs :
                start_send(b, m) =>
                   LET w == bridges[b].w
                       to_worker == [id |-> bridges[b].id, msg |-> Input(m)]
                   IN /\ result' = "Ok"
                      /\ IF nLoaded[w] = 0
                         THEN /\ pending_queue' = [pending_queue EXCEPT ![w].q =
                                                     Append(@, to_worker)]
                              /\ posted' = posted
                         ELSE /\ posted' = [posted EXCEPT ![w] = Append(@, to_worker)]
                              /\ pending_queue' = pending_queue]_vars

\* A connection without a callback and one with a callback have both sent a
\* message that reached its worker, and the handler of the second has run.
C17_Witness ==
    \E a, b \in Bridges :
        /\ bridges[a].cb = 0
        /\ bridges[b].cb # 0
        /\ SentBy(bridges[a].w, bridges[a].id) # <<>>
        /\ SentBy(bridges[b].w, bridges[b].id) # <<>>
        /\ nLoaded[bridges[a].w] > 0
        /\ nLoaded[bridges[b].w] > 0
        /\ calls[bridges[b].cb] # <<>>

\* The worker of the Bridge that was issued HandlerId id (0: not issued).
WorkerOf(id) ==
    IF \E b \in Bridges : bridges[b].id = id
    THEN bridges[CHOOSE b \in Bridges : bridges[b].id = id].w
    ELSE 0

\* C18: two spawn calls, also on one Spawner value, give two workers with a
\* Pending Queue and a Callback Registry each: WorkerLoaded of one worker
\* leaves the other's queue alone, a send reaches only the worker of its
\* Bridge, and ProcessOutput of one worker invokes only through that
\* worker's registry.
C18_WorkersAreSeparate ==
    /\ [](\A w \in Workers :
             /\ \A i \in 1..Len(posted[w]) : WorkerOf(posted[w][i].id) = w
             /\ \A i \in 1..Len(pending_queue[w].q) :
                   WorkerOf(pending_queue[w].q[i].id) = w
             /\ \A h \in HandlerIds : callbacks[w][h] # 0 => WorkerOf(h) = w)
    /\ [][/\ \A w \in Workers :
                WorkerLoaded(w) =>
                   \A v \in Workers \ {w} :
                      /\ pending_queue'[v] = pending_queue[v]
                      /\ posted'[v] = posted[v]
          /\ \A b \in Bridges, m \in Inputs :
                start_send(b, m) =>
                   \A v \in Workers \ {bridges[b].w} :
                      /\ pending_queue'[v] = pending_queue[v]
                      /\ posted'[v] = posted[v]
          /\ \A w \in Workers, id \in HandlerIds, output \in ReactorOutput :
                (calls' # calls /\ ProcessOutput(w, id, output)) =>
                   /\ WorkerOf(id) = w
                   /\ calls' = [calls EXCEPT ![callbacks[w][id]] =
                                  Append(@, [id |-> id, out |-> output])]
                   /\ callbacks' = callbacks]_vars

\* Two workers spawned from one Spawner value with its callback: the first
\* is ready and has received its message, the second still buffers its own,
\* and the callback has run for an output of the first worker only.
C18_Witness ==
    \E w1, w2 \in Workers :
        /\ w1 # w2
        /\ \E h1, h2 \in HandlerIds :
              /\ callbacks[w1][h1] # 0
              /\ callbacks[w2][h2] = callbacks[w1][h1]
              /\ Len(calls[callbacks[w1][h1]]) = 1
              /\ calls[callbacks[w1][h1]][1].id = h1
        /\ nLoaded[w1] > 0 /\ Len(posted[w1]) = 1
        /\ nLoaded[w2] = 0 /\ Len(pending_queue[w2].q) = 1

\* The k-th send call on worker w has been made / has reached the worker.
Submitted(w, k) ==
    IF w \in Workers THEN Len(submitted[w]) >= k ELSE FALSE

Transmitted(w, k) ==
    IF w \in Workers
    THEN IF Len(submitted[w]) >= k /\ Len(posted[w]) >= k
         THEN posted[w][k] = submitted[w][k].msg
         ELSE FALSE
    ELSE FALSE

\* C19: if WorkerLoaded is eventually handled, every message submitted with
\* send on a Bridge of the worker is eventually transmitted, also when its
\* Bridge is dropped before readiness; while WorkerLoaded has not been
\* handled nothing is transmitted.
C19_SentIsEventuallyTransmitted ==
    /\ [](\A w \in Workers : nLoaded[w] = 0 => posted[w] = <<>>)
    /\ \A w \in 1..MaxHandlers, k \in 1..MaxSends :
          Submitted(w, k) ~> Transmitted(w, k)

\* A message sent before readiness by a Bridge that has been dropped was
\* transmitted, and the worker has no Bridge left.
C19_Witness ==
    \E b \in Bridges :
        LET w == bridges[b].w
        IN /\ ~bridges[b].alive
           /\ ~running[w]
           /\ Pre(w) # <<>>
           /\ Pre(w)[1].id = bridges[b].id
           /\ posted[w] = Pre(w)

\* C20: WorkerLoaded leaves the Callback Registry as it was and invokes no
\* handler; ProcessOutput leaves the Pending Queue as it was and transmits
\* nothing, and it dispatches to a live handler whether or not the worker
\* is ready.
C20_InboundKindsAreDisjoint ==
    [][/\ \A w \in Workers :
             WorkerLoaded(w) =>
                UNCHANGED <<callbacks, calls, chan, stream, bridges>>
       /\ \A w \in Workers, id \in HandlerIds, output \in ReactorOutput :
             (vars' # vars /\ ProcessOutput(w, id, output)) =>
                /\ UNCHANGED <<pending_queue, posted, nLoaded, submitted>>
                /\ LET m == Get(callbacks[w], id)
                   IN Upgrade(m) =>
                         calls' = [calls EXCEPT ![m] =
                                     Append(@, [id |-> id, out |-> output])]]_vars

\* A handler has run twice, a message queued before readiness was flushed
\* by WorkerLoaded and a later one transmitted directly; the registry entry
\* is still there.
C20_Witness ==
    \E b \in Bridges :
        LET w == bridges[b].w
        IN /\ bridges[b].cb # 0
           /\ callbacks[w][bridges[b].id] = bridges[b].cb
           /\ Len(calls[bridges[b].cb]) = 2
           /\ nLoaded[w] = 1
           /\ Len(Pre(w)) = 1
           /\ Len(Post(w)) = 1
           /\ Len(posted[w]) = 2
=============================================================================
